---- MODULE Spec2Model ----
(***************************************************************************)
(* Model of app.py: the converter unicode_seq_to_emoji, the loader         *)
(* load_data_from_file and the three GET handlers.                         *)
(*                                                                         *)
(* A Python str is modelled as the sequence of its code points (integers). *)
(* Every other Python / JSON value is a record [kind, s, n]: kind names    *)
(* the type, s holds the code points of a str, n the number of an int, the *)
(* truth value of a bool or the length of a list / dict.                   *)
(***************************************************************************)
EXTENDS Integers, Sequences, FiniteSets, TLC

VARIABLES seq, trace, ret, dataFile, _EMOJI_ITEMS, response, started

vars == <<seq, trace, ret, dataFile, _EMOJI_ITEMS, response, started>>

(***************************************************************************)
(* Bounds of the explored inputs.                                          *)
(***************************************************************************)
MaxLen == 3
MaxTokens == 2
CpLow == 40
MaxRecords == 2

(***************************************************************************)
(* Characters.                                                             *)
(***************************************************************************)
Digits == <<"0", "1", "2", "3", "4", "5", "6", "7", "8", "9">>
Uppers ==
  <<"A", "B", "C", "D", "E", "F", "G", "H", "I", "J", "K", "L", "M", "N",
    "O", "P", "Q", "R", "S", "T", "U", "V", "W", "X", "Y", "Z">>
Lowers ==
  <<"a", "b", "c", "d", "e", "f", "g", "h", "i", "j", "k", "l", "m", "n",
    "o", "p", "q", "r", "s", "t", "u", "v", "w", "x", "y", "z">>

\* code point of an ASCII character
Ord(c) ==
  CASE c = " " -> 32
    [] c = "!" -> 33
    [] c = "+" -> 43
    [] c = "\\" -> 92
    [] \E i \in 1..10 : Digits[i] = c -> 47 + (CHOOSE i \in 1..10 : Digits[i] = c)
    [] \E i \in 1..26 : Uppers[i] = c -> 64 + (CHOOSE i \in 1..26 : Uppers[i] = c)
    [] \E i \in 1..26 : Lowers[i] = c -> 96 + (CHOOSE i \in 1..26 : Lowers[i] = c)

\* the str whose characters are the one-character strings of t
Str(t) == [i \in 1..Len(t) |-> Ord(t[i])]

TAB == 9

\* largest code point chr() accepts
MaxCodepoint == 1114111

\* Python ints are unbounded; every value from IntCap up is represented by
\* IntCap (chr only tells apart the values up to MaxCodepoint)
IntCap == 268435456

\* characters str.split() and str.strip() treat as whitespace
Whitespace == {9, 10, 11, 12, 13, 28, 29, 30, 31, 32, 133, 160}

\* the characters of "0123456789abcdefABCDEF"
HexDigits == (48..57) \cup (97..102) \cup (65..70)

(***************************************************************************)
(* Python values.                                                          *)
(***************************************************************************)
PyStr(s) == [kind |-> "str", s |-> s, n |-> 0]
PyNone == [kind |-> "none", s |-> <<>>, n |-> 0]
PyInt(n) == [kind |-> "int", s |-> <<>>, n |-> n]
PyList(n) == [kind |-> "list", s |-> <<>>, n |-> n]
PyDict(n) == [kind |-> "dict", s |-> <<>>, n |-> n]

\* truth value of a Python value: `not v` is ~Truthy(v)
Truthy(v) ==
  CASE v.kind = "str" -> v.s # <<>>
    [] v.kind = "none" -> FALSE
    [] OTHER -> v.n # 0

(***************************************************************************)
(* str methods used by the converter.                                      *)
(***************************************************************************)
\* str.startswith
startswith(s, p) == Len(s) >= Len(p) /\ SubSeq(s, 1, Len(p)) = p

\* str.upper on the ASCII letters
upper(s) == [i \in 1..Len(s) |-> IF s[i] \in 97..122 THEN s[i] - 32 ELSE s[i]]

\* str.lstrip(chars): drop the leading characters that are in chars
RECURSIVE lstrip(_, _)
lstrip(s, chars) ==
  IF s # <<>> /\ s[1] \in chars THEN lstrip(Tail(s), chars) ELSE s

\* str.split(): the maximal runs of non-whitespace characters, in order
RECURSIVE split_from(_, _, _)
split_from(s, i, cur) ==
  IF i > Len(s) THEN (IF cur = <<>> THEN <<>> ELSE <<cur>>)
  ELSE IF s[i] \in Whitespace
       THEN (IF cur = <<>> THEN <<>> ELSE <<cur>>) \o split_from(s, i + 1, <<>>)
       ELSE split_from(s, i + 1, Append(cur, s[i]))

split(s) == split_from(s, 1, <<>>)

\* str.strip(): drop leading and trailing whitespace
RECURSIVE rstrip_ws(_)
rstrip_ws(s) ==
  IF s # <<>> /\ s[Len(s)] \in Whitespace
  THEN rstrip_ws(SubSeq(s, 1, Len(s) - 1)) ELSE s

strip(s) == rstrip_ws(lstrip(s, Whitespace))

(***************************************************************************)
(* unicode_seq_to_emoji, one token at a time.                              *)
(***************************************************************************)
\* digit16 with the offset of 'A' taken for the value of 'A'
digit16_wrong_offset(ch) ==
  IF ch \in 48..57 THEN ch - 48
  ELSE IF ch \in 97..102 THEN ch - 87 ELSE ch - 65

\* value of one character of "0123456789abcdefABCDEF"
digit16(ch) ==
  IF ch \in 48..57 THEN ch - 48
  ELSE IF ch \in 97..102 THEN ch - 87 ELSE ch - 55

\* int(hexpart, 16) on a non-empty string of hexadecimal digits
RECURSIVE int16_from(_, _, _)
int16_from(h, i, acc) ==
  IF i > Len(h) THEN acc
  ELSE int16_from(h, i + 1,
         IF acc >= IntCap \div 16 THEN IntCap
         ELSE acc * 16 + digit16(h[i]))

int16(h) == int16_from(h, 1, 0)

\* chr that substitutes U+FFFD for a value out of range
chr_replacement(codepoint) ==
  IF codepoint \in 0..MaxCodepoint
  THEN [exc |-> "none", ch |-> <<codepoint>>]
  ELSE [exc |-> "none", ch |-> <<65533>>]

\* chr that yields a surrogate pair above the basic plane
chr_utf16(codepoint) ==
  IF codepoint \in 0..65535
  THEN [exc |-> "none", ch |-> <<codepoint>>]
  ELSE IF codepoint <= MaxCodepoint
       THEN [exc |-> "none",
             ch |-> <<55296 + ((codepoint - 65536) \div 1024),
                      56320 + ((codepoint - 65536) % 1024)>>]
       ELSE [exc |-> "ValueError", ch |-> <<>>]

\* chr(codepoint): the character, or the exception chr raises
chr(codepoint) ==
  IF codepoint \in 0..MaxCodepoint
  THEN [exc |-> "none", ch |-> <<codepoint>>]
  ELSE [exc |-> "ValueError", ch |-> <<>>]

\* hexpart_of with token[3:] in the U+ branch
hexpart_of_off_by_one(token) ==
  IF startswith(upper(token), Str(<<"U", "+">>))
  THEN SubSeq(token, 4, Len(token))
  ELSE IF startswith(token, Str(<<"\\", "u">>))
          \/ startswith(token, Str(<<"\\", "U">>))
       THEN lstrip(lstrip(token, {Ord("\\"), Ord("u")}), {Ord("\\"), Ord("U")})
       ELSE token

\* hexpart_of with token[2:] in the backslash branch
hexpart_of_two_chars(token) ==
  IF startswith(upper(token), Str(<<"U", "+">>))
  THEN SubSeq(token, 3, Len(token))
  ELSE IF startswith(token, Str(<<"\\", "u">>))
          \/ startswith(token, Str(<<"\\", "U">>))
       THEN SubSeq(token, 3, Len(token))
       ELSE token

\* the prefix removal: hexpart as assigned by the if / elif / else
hexpart_of(token) ==
  IF startswith(upper(token), Str(<<"U", "+">>))
  THEN SubSeq(token, 3, Len(token))
  ELSE IF startswith(token, Str(<<"\\", "u">>))
          \/ startswith(token, Str(<<"\\", "U">>))
       THEN lstrip(lstrip(token, {Ord("\\"), Ord("u")}), {Ord("\\"), Ord("U")})
       ELSE token

\* hexfilter that rejects a payload holding any other character
hexfilter_strict(hexpart) ==
  IF \A i \in 1..Len(hexpart) : hexpart[i] \in HexDigits THEN hexpart ELSE <<>>

\* "".join(ch for ch in hexpart if ch in "0123456789abcdefABCDEF")
hexfilter(hexpart) == SelectSeq(hexpart, LAMBDA ch : ch \in HexDigits)

\* a try block without its except clause
caught_nothing(exc) == FALSE

\* `except Exception` catches every exception of the try block
caught(exc) == exc # "none"

\* one iteration of the for loop: the locals and what is appended to chars
loop_body(tok) ==
  LET token == strip(tok)
      hexpart == hexpart_of(token)
      hexdigits == hexfilter(hexpart)
      made == IF token = <<>> \/ hexdigits = <<>>
              THEN [exc |-> "none", ch |-> <<>>]
              ELSE chr(int16(hexdigits))
  IN [token |-> token,
      hexpart |-> hexpart,
      hexdigits |-> hexdigits,
      appended |-> made.ch,
      uncaught |-> made.exc # "none" /\ ~caught(made.exc)]

\* join_appended with chars.insert(0, ...) for chars.append(...)
RECURSIVE join_prepended(_, _)
join_prepended(t, i) ==
  IF i > Len(t) THEN <<>> ELSE join_prepended(t, i + 1) \o t[i].appended

\* "".join(chars) after the loop has run over parts
RECURSIVE join_appended(_, _)
join_appended(t, i) ==
  IF i > Len(t) THEN <<>> ELSE t[i].appended \o join_appended(t, i + 1)

\* the locals of every iteration of `for token in parts`
loop_trace(v) ==
  IF ~Truthy(v) \/ v.kind # "str" THEN <<>>
  ELSE LET parts == split(v.s)
       IN [i \in 1..Len(parts) |-> loop_body(parts[i])]

\* unicode_seq_to_emoji(seq): what the call returns, or that it raises
unicode_seq_to_emoji(v) ==
  LET t == loop_trace(v)
  IN IF \E i \in 1..Len(t) : t[i].uncaught
     THEN [kind |-> "raise", value |-> <<>>]
     ELSE [kind |-> "return", value |-> join_appended(t, 1)]

(***************************************************************************)
(* The arguments the converter is called with.                             *)
(***************************************************************************)
NonStrings == {PyNone, PyInt(0), PyInt(5), PyList(0), PyList(2), PyDict(1)}

CharPool ==
  {32, TAB, Ord("U"), Ord("u"), Ord("+"), Ord("\\"), Ord("1"), Ord("F"),
   Ord("a"), Ord("Z")}

RECURSIVE StringsUpTo(_)
StringsUpTo(n) ==
  IF n = 0 THEN {<<>>}
  ELSE LET shorter == StringsUpTo(n - 1)
       IN shorter \cup {Append(s, c) : s \in shorter, c \in CharPool}

TokenPool ==
  { Str(<<"U", "+", "1", "F", "6", "8", "0">>),
    Str(<<"u", "+", "1", "f", "3", "1", "5">>),
    Str(<<"1", "F", "6", "8", "0">>),
    Str(<<"\\", "u", "1", "F", "6", "8", "0">>),
    Str(<<"\\", "U", "0", "0", "4", "1">>),
    Str(<<"\\", "u", "U", "u", "1">>),
    Str(<<"\\", "U", "\\", "u", "4", "1">>),
    Str(<<"U", "+", "Z", "Z", "Z", "Z">>),
    Str(<<"U", "+", "1", "1", "0", "0", "0", "0">>),
    Str(<<"U", "+", "1", "0", "F", "F", "F", "F">>),
    Str(<<"U", "+", "D", "8", "0", "0">>),
    Str(<<"F", "F", "F", "F", "F", "F", "F", "F", "F">>),
    Str(<<"g", "a", "r", "b", "a", "g", "e">>),
    Str(<<"!", "!", "!">>) }

Separators == {<<32>>, <<TAB, 32>>}

RECURSIVE TokenStringsUpTo(_)
TokenStringsUpTo(n) ==
  IF n = 0 THEN {<<>>}
  ELSE LET shorter == TokenStringsUpTo(n - 1)
       IN shorter \cup TokenPool
            \cup {s \o sep \o t :
                    s \in shorter \ {<<>>}, sep \in Separators, t \in TokenPool}

Padded(S) == S \cup {<<32>> \o s \o <<32, 10>> : s \in S}

\* the hexadecimal digit of a value in 0..15, in upper case
HexChar(d) == IF d < 10 THEN 48 + d ELSE 55 + d

\* the upper-case hexadecimal digits of c, zero-padded to at least 4 digits
RECURSIVE HexDigitsOf(_, _)
HexDigitsOf(c, width) ==
  IF c = 0 /\ width <= 0 THEN <<>>
  ELSE Append(HexDigitsOf(c \div 16, width - 1), HexChar(c % 16))

\* the token "U+XXXX" of code point c
FormatToken(c) == Str(<<"U", "+">>) \o HexDigitsOf(c, 4)

CodepointSamples ==
  (0..CpLow) \cup {255, 256, 4095, 4096, 43950, 55296, 57343, 65535, 65536,
                   127765, 128640, 1048576, MaxCodepoint}

\* "garbage U+1F680 !!!"
GarbageExample ==
  Str(<<"g", "a", "r", "b", "a", "g", "e", " ", "U", "+", "1", "F", "6", "8",
        "0", " ", "!", "!", "!">>)

\* "U+1F680 U+1F315"
RocketMoonExample ==
  Str(<<"U", "+", "1", "F", "6", "8", "0", " ", "U", "+", "1", "F", "3", "1",
        "5">>)

Examples == {GarbageExample, RocketMoonExample}

Arguments ==
  NonStrings
    \cup {PyStr(s) : s \in Examples}
    \cup {PyStr(s) : s \in StringsUpTo(MaxLen)}
    \cup {PyStr(s) : s \in Padded(TokenStringsUpTo(MaxTokens))}
    \cup {PyStr(FormatToken(c)) : c \in CodepointSamples}

(***************************************************************************)
(* emoji_data.json and load_data_from_file.                                *)
(***************************************************************************)
\* a key a JSON object does not have
Absent == [kind |-> "absent", s |-> <<>>, n |-> 0]

\* an element of the JSON root list: a JSON object with its keys, or not one
Obj(us, u, cp, mn, m, h) ==
  [isdict |-> TRUE, unicode_seq |-> us, unicode |-> u, codepoints |-> cp,
   movie_name |-> mn, movie |-> m, hint |-> h]

NotAnObject ==
  [isdict |-> FALSE, unicode_seq |-> Absent, unicode |-> Absent,
   codepoints |-> Absent, movie_name |-> Absent, movie |-> Absent,
   hint |-> Absent]

\* obj.get(key)
get(obj, key) == IF obj[key] = Absent THEN PyNone ELSE obj[key]

\* a or b
or(a, b) == IF Truthy(a) THEN a ELSE b

\* the dict appended to items, with the hint left as None
new_item_keep_none(seq_val, emoji_chars, movie_val, hint_val) ==
  [unicode_seq |-> seq_val, emoji |-> PyStr(emoji_chars),
   movie_name |-> movie_val, hint |-> hint_val]

\* the dict appended to items
new_item(seq_val, emoji_chars, movie_val, hint_val) ==
  [unicode_seq |-> seq_val, emoji |-> PyStr(emoji_chars),
   movie_name |-> movie_val,
   hint |-> IF hint_val # PyNone THEN hint_val ELSE PyStr(<<>>)]

\* one iteration of `for obj in loaded`: the items appended, or that the
\* iteration raises
load_one(obj) ==
  IF ~obj.isdict THEN [exc |-> FALSE, items |-> <<>>]
  ELSE LET seq_val == or(or(get(obj, "unicode_seq"), get(obj, "unicode")),
                         get(obj, "codepoints"))
           movie_val == or(get(obj, "movie_name"), get(obj, "movie"))
           hint_val == IF obj.hint # Absent THEN get(obj, "hint")
                       ELSE PyStr(<<>>)
           emoji_chars == unicode_seq_to_emoji(seq_val)
       IN IF ~Truthy(seq_val) \/ ~Truthy(movie_val)
          THEN [exc |-> FALSE, items |-> <<>>]
          ELSE IF emoji_chars.kind = "raise"
               THEN [exc |-> TRUE, items |-> <<>>]
               ELSE [exc |-> FALSE,
                     items |-> <<new_item(seq_val, emoji_chars.value,
                                          movie_val, hint_val)>>]

RECURSIVE load_from(_, _, _)
load_from(loaded, i, items) ==
  IF i > Len(loaded) THEN [exc |-> FALSE, items |-> items]
  ELSE LET one == load_one(loaded[i])
       IN IF one.exc THEN [exc |-> TRUE, items |-> <<>>]
          ELSE load_from(loaded, i + 1, items \o one.items)

\* the value load_data_from_file assigns to _EMOJI_ITEMS
loaded_items(file) ==
  IF file.kind # "list" THEN <<>>
  ELSE LET r == load_from(file.records, 1, <<>>)
       IN IF r.exc THEN <<>> ELSE r.items

(***************************************************************************)
(* The GET handlers.                                                       *)
(***************************************************************************)
Surrogates == 55296..57343

\* as_plain_text(content): Response() encodes a str as UTF-8; a lone
\* surrogate or a content that is not a str makes it raise, and the
\* request ends as an unhandled error
as_plain_text(route, content) ==
  IF content.kind = "str"
       /\ \A i \in 1..Len(content.s) : content.s[i] \notin Surrogates
  THEN [route |-> route, status |-> 200, body |-> content]
  ELSE [route |-> route, status |-> 500, body |-> PyNone]

\* the HTTPException of ensure_items
NotFound(route) == [route |-> route, status |-> 404, body |-> PyNone]

Pending == [kind |-> "pending", value |-> <<>>]

NoResponse == [route |-> "none", status |-> 0, body |-> PyNone]

NoFile == [kind |-> "missing", records |-> <<>>]

ConvInit ==
  /\ seq \in Arguments
  /\ trace = <<>>
  /\ ret = Pending
  /\ dataFile = NoFile
  /\ _EMOJI_ITEMS = <<>>
  /\ response = NoResponse
  /\ started = FALSE

\* a call unicode_seq_to_emoji(seq)
call_unicode_seq_to_emoji ==
  /\ ret.kind = "pending"
  /\ trace' = loop_trace(seq)
  /\ ret' = unicode_seq_to_emoji(seq)
  /\ UNCHANGED <<seq, dataFile, _EMOJI_ITEMS, response, started>>

ConvNext == call_unicode_seq_to_emoji

ConvSpec == ConvInit /\ [][ConvNext]_vars

(***************************************************************************)
(* Vocabulary of the properties of the converter.                          *)
(***************************************************************************)
Called == ret.kind # "pending"

IsStr == seq.kind = "str"

\* positions where a whitespace-separated token of s starts
TokenStarts(s) ==
  {i \in 1..Len(s) : s[i] \notin Whitespace /\ (i = 1 \/ s[i - 1] \in Whitespace)}

TokenCount(s) == Cardinality(TokenStarts(s))

\* start and end position of the k-th token of s
TokenStart(s, k) ==
  CHOOSE i \in TokenStarts(s) : Cardinality({j \in TokenStarts(s) : j < i}) = k - 1

TokenEnd(s, k) ==
  CHOOSE e \in TokenStart(s, k)..Len(s) :
    /\ \A j \in TokenStart(s, k)..e : s[j] \notin Whitespace
    /\ (e = Len(s) \/ s[e + 1] \in Whitespace)

TokenAt(s, k) == SubSeq(s, TokenStart(s, k), TokenEnd(s, k))

\* s with the characters of its k-th token taken out
RemoveToken(s, k) ==
  SubSeq(s, 1, TokenStart(s, k) - 1) \o SubSeq(s, TokenEnd(s, k) + 1, Len(s))

AllHex(h) == \A i \in 1..Len(h) : h[i] \in HexDigits

\* h without its leading zeros
RECURSIVE Significant(_)
Significant(h) == IF h # <<>> /\ h[1] = 48 THEN Significant(Tail(h)) ELSE h

\* the number a string of at most 6 hexadecimal digits denotes
RECURSIVE HexValue(_)
HexValue(h) ==
  IF h = <<>> THEN 0
  ELSE 16 * HexValue(SubSeq(h, 1, Len(h) - 1))
         + (CHOOSE d \in 0..15 : h[Len(h)] \in {HexChar(d), HexChar(d) + 32 * (d \div 10)})

DenotesCodepoint(h) ==
  /\ h # <<>>
  /\ AllHex(h)
  /\ Len(Significant(h)) <= 6
  /\ HexValue(Significant(h)) <= MaxCodepoint

Prefixes ==
  {<<>>, Str(<<"U", "+">>), Str(<<"u", "+">>), Str(<<"\\", "u">>),
   Str(<<"\\", "U">>)}

\* t is a prefix of Prefixes followed by hexadecimal digits of a code point
ValidToken(t) ==
  \E p \in Prefixes :
    startswith(t, p) /\ DenotesCodepoint(SubSeq(t, Len(p) + 1, Len(t)))

CodepointOfToken(t) ==
  LET p == CHOOSE q \in Prefixes :
             startswith(t, q) /\ DenotesCodepoint(SubSeq(t, Len(q) + 1, Len(t)))
  IN HexValue(Significant(SubSeq(t, Len(p) + 1, Len(t))))

\* C1: unicode_seq_to_emoji never raises and returns a string for every
\* argument; an argument that is not a str, and the empty str, give "".
C1_NeverRaises ==
  Called =>
    /\ ret.kind = "return"
    /\ \A i \in 1..Len(ret.value) : ret.value[i] \in 0..MaxCodepoint
    /\ (~IsStr \/ seq.s = <<>>) => ret.value = <<>>

C1_Witness ==
  /\ ret.kind = "return"
  /\ seq = PyStr(Str(<<"U", "+", "1", "1", "0", "0", "0", "0">>))
  /\ ret.value = <<>>

\* C2 as stated: unicode_seq_to_emoji("garbage U+1F680 !!!") is exactly the
\* rocket character U+1F680.
C2_Original ==
  (Called /\ seq = PyStr(GarbageExample)) => ret.value = <<128640>>

\* C2 amended: unicode_seq_to_emoji("garbage U+1F680 !!!") is the two
\* characters U+ABAE (from the hex digits a, b, a, e of "garbage") and U+1F680;
\* only "!!!" contributes no character.
C2_GarbageExample ==
  (Called /\ seq = PyStr(GarbageExample)) =>
    (ret.kind = "return" /\ ret.value = <<43950, 128640>>)

C2_Witness ==
  /\ ret.kind = "return"
  /\ seq = PyStr(GarbageExample)
  /\ Len(trace) = 3
  /\ trace[3].appended = <<>>

\* C3: N tokens that each denote a code point (U+, backslash-u or no prefix)
\* give exactly N characters, the i-th being the i-th token's code point.
C3_OrderPreserved ==
  (Called /\ IsStr
     /\ \A k \in 1..TokenCount(seq.s) : ValidToken(TokenAt(seq.s, k))) =>
    /\ ret.kind = "return"
    /\ Len(ret.value) = TokenCount(seq.s)
    /\ \A k \in 1..TokenCount(seq.s) :
         ret.value[k] = CodepointOfToken(TokenAt(seq.s, k))

C3_Witness ==
  /\ ret.kind = "return"
  /\ seq = PyStr(Str(<<"u", "+", "1", "f", "3", "1", "5">>) \o <<TAB, 32>>
                   \o Str(<<"\\", "u", "1", "F", "6", "8", "0">>))
  /\ ret.value = <<127765, 128640>>

\* a token the converter drops: no hexadecimal digit after prefix removal,
\* or a value above 0x10FFFF
DroppedToken(t) ==
  LET h == SelectSeq(hexpart_of(t), LAMBDA ch : ch \in HexDigits)
  IN h = <<>> \/ ~DenotesCodepoint(h)

\* C4: a dropped token changes nothing else: the result equals the result on
\* the input without that token, and no character stands in for it.
C4_DroppedTokenIsNeutral ==
  (Called /\ IsStr) =>
    /\ \A k \in 1..TokenCount(seq.s) :
         DroppedToken(TokenAt(seq.s, k)) =>
           ret = unicode_seq_to_emoji(PyStr(RemoveToken(seq.s, k)))
    /\ Len(ret.value) <=
         Cardinality({k \in 1..TokenCount(seq.s) : ~DroppedToken(TokenAt(seq.s, k))})

C4_Witness ==
  /\ ret.kind = "return"
  /\ seq = PyStr(Str(<<"U", "+", "1", "1", "0", "0", "0", "0">>) \o <<32>>
                   \o Str(<<"1", "F", "6", "8", "0">>))
  /\ ret.value = <<128640>>

\* C5: the output has at most as many characters as the input has
\* whitespace-separated tokens.
C5_LengthAtMostTokens ==
  Called => Len(ret.value) <= (IF IsStr THEN TokenCount(seq.s) ELSE 0)

C5_Witness ==
  /\ ret.kind = "return"
  /\ IsStr
  /\ TokenCount(seq.s) = 2
  /\ Len(ret.value) = 2
  /\ \E i \in 1..2 : ret.value[i] > 65535

\* C6: for a non-empty string h of hexadecimal digits the results on h, on
\* "U+" + h and on "u+" + h are the same.
C6_PrefixOptional ==
  (Called /\ IsStr /\ seq.s # <<>> /\ AllHex(seq.s)) =>
    /\ ret = unicode_seq_to_emoji(PyStr(Str(<<"U", "+">>) \o seq.s))
    /\ ret = unicode_seq_to_emoji(PyStr(Str(<<"u", "+">>) \o seq.s))

C6_Witness ==
  /\ ret.kind = "return"
  /\ seq = PyStr(Str(<<"a", "F", "1">>))
  /\ ret.value = <<2801>>

\* C7: the token "U+" + upper-case hex digits of c (at least 4 digits) gives
\* the one character c, for every code point c.
C7_RoundTrip ==
  \A c \in CodepointSamples :
    (Called /\ seq = PyStr(FormatToken(c))) =>
      (ret.kind = "return" /\ ret.value = <<c>>)

C7_Witness ==
  /\ ret.kind = "return"
  /\ seq = PyStr(FormatToken(128640))
  /\ seq.s = Str(<<"U", "+", "1", "F", "6", "8", "0">>)
  /\ ret.value = <<128640>>

BackslashPrefixed(t) ==
  startswith(t, Str(<<"\\", "u">>)) \/ startswith(t, Str(<<"\\", "U">>))

EscapeChars == {Ord("\\"), Ord("u"), Ord("U")}

\* number of leading characters of t that are in chars
RECURSIVE LeadingRun(_, _)
LeadingRun(t, chars) ==
  IF t # <<>> /\ t[1] \in chars THEN 1 + LeadingRun(Tail(t), chars) ELSE 0

\* C9 as stated: for a token starting with backslash-u or backslash-U the
\* payload is the token without its maximal leading run of backslash, u, U.
C9_Original ==
  \A i \in 1..Len(trace) :
    BackslashPrefixed(trace[i].token) =>
      /\ trace[i].hexpart =
           SubSeq(trace[i].token, LeadingRun(trace[i].token, EscapeChars) + 1,
                  Len(trace[i].token))
      /\ (trace[i].hexpart # <<>> => trace[i].hexpart[1] \notin EscapeChars)

\* C9 amended: the payload is the token without its maximal leading run of
\* backslash and u, and then without the maximal leading run of backslash and
\* U of what is left; its first character is neither backslash nor U (it can
\* be u), and its hexadecimal digits are those of the token without the
\* maximal leading run of backslash, u, U.
C9_TwoStageStrip ==
  \A i \in 1..Len(trace) :
    BackslashPrefixed(trace[i].token) =>
      LET t == trace[i].token
          first == LeadingRun(t, {Ord("\\"), Ord("u")})
          rest == SubSeq(t, first + 1, Len(t))
          second == LeadingRun(rest, {Ord("\\"), Ord("U")})
      IN /\ trace[i].hexpart = SubSeq(rest, second + 1, Len(rest))
         /\ (trace[i].hexpart # <<>> =>
               trace[i].hexpart[1] \notin {Ord("\\"), Ord("U")})
         /\ trace[i].hexdigits =
              SelectSeq(SubSeq(t, LeadingRun(t, EscapeChars) + 1, Len(t)),
                        LAMBDA ch : ch \in HexDigits)

C9_Witness ==
  /\ ret.kind = "return"
  /\ Len(trace) = 1
  /\ trace[1].token = Str(<<"\\", "u", "U", "u", "1">>)
  /\ trace[1].hexpart = Str(<<"u", "1">>)
  /\ ret.value = <<1>>

(***************************************************************************)
(* The service: startup, then any sequence of GET requests.                *)
(***************************************************************************)
S(t) == PyStr(Str(t))

RecordPool ==
  { Obj(S(<<"U", "+", "1", "F", "6", "8", "0", " ", "U", "+", "1", "F", "3",
            "1", "5">>), Absent, Absent, S(<<"M">>), Absent, S(<<"h">>)),
    Obj(Absent, S(<<"1", "F", "6", "8", "0">>), Absent, Absent, S(<<"X">>),
        Absent),
    Obj(Absent, Absent, S(<<"U", "+", "D", "8", "0", "0">>), S(<<"S">>),
        Absent, PyNone),
    Obj(S(<<"U", "+", "1", "F", "6", "8", "0">>), Absent, Absent, PyInt(5),
        Absent, Absent),
    Obj(PyStr(<<>>), S(<<"U", "+", "0", "0", "4", "1">>), Absent, S(<<"A">>),
        Absent, PyInt(7)),
    Obj(Absent, Absent, Absent, S(<<"N">>), Absent, S(<<"h">>)),
    Obj(S(<<"U", "+", "1", "F", "6", "8", "0">>), Absent, Absent, PyStr(<<>>),
        PyNone, Absent),
    Obj(PyInt(5), Absent, Absent, S(<<"N">>), Absent, PyStr(<<>>)),
    Obj(S(<<"g", "a", "r", "b", "a", "g", "e">>), Absent, Absent, S(<<"G">>),
        Absent, PyInt(0)),
    NotAnObject }

RECURSIVE RecordListsUpTo(_)
RecordListsUpTo(n) ==
  IF n = 0 THEN {<<>>}
  ELSE LET shorter == RecordListsUpTo(n - 1)
       IN shorter \cup {Append(l, r) : l \in shorter, r \in RecordPool}

DataFiles ==
  {[kind |-> k, records |-> <<>>] :
     k \in {"missing", "unreadable", "invalid_json", "not_list"}}
    \cup {[kind |-> "list", records |-> l] : l \in RecordListsUpTo(MaxRecords)}

Init ==
  /\ seq = PyNone
  /\ trace = <<>>
  /\ ret = Pending
  /\ dataFile \in DataFiles
  /\ _EMOJI_ITEMS = <<>>
  /\ response = NoResponse
  /\ started = FALSE

\* startup_event: load_data_from_file()
startup_event ==
  /\ ~started
  /\ started' = TRUE
  /\ _EMOJI_ITEMS' = loaded_items(dataFile)
  /\ UNCHANGED <<seq, trace, ret, dataFile, response>>

\* GET /emoji
random_emoji ==
  /\ started
  /\ \/ /\ _EMOJI_ITEMS = <<>>
        /\ response' = NotFound("emoji")
     \/ \E i \in 1..Len(_EMOJI_ITEMS) :
          response' = as_plain_text("emoji", _EMOJI_ITEMS[i].emoji)
  /\ UNCHANGED <<seq, trace, ret, dataFile, _EMOJI_ITEMS, started>>

\* GET /movie
random_movie ==
  /\ started
  /\ \/ /\ _EMOJI_ITEMS = <<>>
        /\ response' = NotFound("movie")
     \/ \E i \in 1..Len(_EMOJI_ITEMS) :
          response' = as_plain_text("movie", _EMOJI_ITEMS[i].movie_name)
  /\ UNCHANGED <<seq, trace, ret, dataFile, _EMOJI_ITEMS, started>>

\* GET /hint
random_hint ==
  /\ started
  /\ \/ /\ _EMOJI_ITEMS = <<>>
        /\ response' = NotFound("hint")
     \/ \E i \in 1..Len(_EMOJI_ITEMS) :
          response' = as_plain_text("hint", or(_EMOJI_ITEMS[i].hint, PyStr(<<>>)))
  /\ UNCHANGED <<seq, trace, ret, dataFile, _EMOJI_ITEMS, started>>

Next == startup_event \/ random_emoji \/ random_movie \/ random_hint

Spec == Init /\ [][Next]_vars

(***************************************************************************)
(* Properties of the service.                                              *)
(***************************************************************************)
SeqKeys == <<"unicode_seq", "unicode", "codepoints">>
MovieKeys == <<"movie_name", "movie">>

\* the value of the first of keys that r has with a true value, if any
HasTrue(r, keys) ==
  \E i \in 1..Len(keys) : r[keys[i]] # Absent /\ Truthy(r[keys[i]])

FirstTrue(r, keys) ==
  r[keys[CHOOSE i \in 1..Len(keys) :
           /\ r[keys[i]] # Absent /\ Truthy(r[keys[i]])
           /\ \A j \in 1..(i - 1) : r[keys[j]] = Absent \/ ~Truthy(r[keys[j]])]]

\* a record the loader keeps: an object with a sequence and a movie name
Usable(r) == r.isdict /\ HasTrue(r, SeqKeys) /\ HasTrue(r, MovieKeys)

UsableIndexes == {k \in 1..Len(dataFile.records) : Usable(dataFile.records[k])}

\* the j-th usable record of the file
UsableAt(j) ==
  dataFile.records[CHOOSE k \in UsableIndexes :
                     Cardinality({l \in UsableIndexes : l < k}) = j - 1]

BadFile == dataFile.kind # "list" \/ UsableIndexes = {}

FieldOfRoute(item, route) ==
  CASE route = "emoji" -> item.emoji
    [] route = "movie" -> item.movie_name
    [] route = "hint" -> item.hint

\* C8: with a missing, unreadable, invalid or unusable data file the store
\* is empty and every GET answers 404; with a non-empty store every GET
\* answers 200 with the field of one stored item.
C8_Claim ==
  started =>
    /\ BadFile => _EMOJI_ITEMS = <<>>
    /\ response.route # "none" =>
         IF _EMOJI_ITEMS = <<>> THEN response.status = 404
         ELSE /\ response.status = 200
              /\ \E i \in 1..Len(_EMOJI_ITEMS) :
                   LET field == FieldOfRoute(_EMOJI_ITEMS[i], response.route)
                   IN \/ response.body = field
                      \/ /\ response.route = "hint"
                         /\ ~Truthy(field)
                         /\ response.body = PyStr(<<>>)

StoreWellFormed ==
  started =>
    /\ Len(_EMOJI_ITEMS) = Cardinality(UsableIndexes)
    /\ \A j \in 1..Len(_EMOJI_ITEMS) :
         LET item == _EMOJI_ITEMS[j]
         IN /\ DOMAIN item = {"unicode_seq", "emoji", "movie_name", "hint"}
            /\ Truthy(item.unicode_seq)
            /\ Truthy(item.movie_name)
            /\ item.hint # PyNone
            /\ item.hint # Absent
            /\ unicode_seq_to_emoji(item.unicode_seq).kind = "return"
            /\ item.emoji = PyStr(unicode_seq_to_emoji(item.unicode_seq).value)
            /\ item.unicode_seq = FirstTrue(UsableAt(j), SeqKeys)
            /\ item.movie_name = FirstTrue(UsableAt(j), MovieKeys)

\* C10: after load_data_from_file every stored item has exactly the keys
\* unicode_seq, emoji, movie_name, hint, a true unicode_seq and movie_name, a
\* hint that is not None and emoji = unicode_seq_to_emoji(unicode_seq); the
\* items are the usable records of the file in file order; no GET handler
\* changes the store.
C10_StoreInvariant ==
  /\ []StoreWellFormed
  /\ [][started => _EMOJI_ITEMS' = _EMOJI_ITEMS]_vars

C10_Witness ==
  /\ started
  /\ Len(dataFile.records) = 2
  /\ ~Usable(dataFile.records[1])
  /\ Len(_EMOJI_ITEMS) = 1
  /\ dataFile.records[2].hint = PyNone
  /\ _EMOJI_ITEMS[1].hint = PyStr(<<>>)
  /\ response.status = 200
  /\ response.route = "movie"
====
